---- MODULE Spec2Model ----
(***************************************************************************)
(* Model of send_email.py: configuration resolution (load_transport_from_  *)
(* env, resolve_config), message assembly (build_message), the SMTP        *)
(* session (send_smtp) and the orchestration in main.                      *)
(*                                                                         *)
(* A Python str is a sequence of one-character strings, so that lower(),   *)
(* int() and ", ".join() are computed character by character.  A dict or   *)
(* an argparse Namespace is a function; a key that is unset (os.environ)   *)
(* or whose attribute is None (Namespace, keyword argument) is a key that  *)
(* is not in the function's DOMAIN.                                        *)
(***************************************************************************)
EXTENDS Integers, Sequences, FiniteSets, TLC

VARIABLES
    entry,      \* the function the run enters: main, resolve_config, build_message, send_smtp
    environ,    \* os.environ
    args,       \* the argparse Namespace (main, resolve_config)
    pc,         \* position of the run
    transport,  \* tr of resolve_config / transport of main
    msg_cfg,    \* msg_cfg of resolve_config / main
    bm,         \* frame of build_message: its arguments, msg under construction, loop index
    msg,        \* the message object held by the caller (returned by build_message)
    sm,         \* frame of send_smtp: its arguments and the local encryption
    conn,       \* the SMTP connection: "none", "open", "closed"
    tls,        \* whether the open connection is TLS-protected
    log,        \* the session operations performed so far, in order
    err,        \* the exception that ended the run, <<>> when none
    report,     \* what the dry-run printed, per run
    run         \* 1 for the invocation, 2 for the same invocation without --dry-run

vars == <<entry, environ, args, pc, transport, msg_cfg, bm, msg, sm, conn, tls, log, err, report, run>>

(***************************************************************************)
(* Bounds of the model.                                                    *)
(***************************************************************************)
\* settings (environment variables and transport flags) given a value, resolve_config entered directly
MaxSettings == 3
\* settings given a value in a run of main
MaxMainSettings == 1
\* length of the To list passed to build_message
MaxTo == 2
\* length of the Cc list and of the Bcc list
MaxCc == 1
\* number of attachment paths
MaxAttach == 2
\* length of the recipient list carried by a message handed to send_smtp directly
MaxRcpt == 2

(***************************************************************************)
(* Strings.                                                                *)
(***************************************************************************)
Upper == <<"A","B","C","D","E","F","G","H","I","J","K","L","M",
           "N","O","P","Q","R","S","T","U","V","W","X","Y","Z">>
LowerAlpha == <<"a","b","c","d","e","f","g","h","i","j","k","l","m",
                "n","o","p","q","r","s","t","u","v","w","x","y","z">>
Digits == <<"0","1","2","3","4","5","6","7","8","9">>

Range(s) == {s[i] : i \in DOMAIN s}

\* str.lower()
LowerChar(c) ==
    IF \E i \in DOMAIN Upper : Upper[i] = c
    THEN LowerAlpha[CHOOSE i \in DOMAIN Upper : Upper[i] = c]
    ELSE c
Lower(s) == [i \in DOMAIN s |-> LowerChar(s[i])]

\* int(str) for a string of decimal digits; anything else raises ValueError
IsDecimal(s) == Len(s) > 0 /\ \A i \in DOMAIN s : s[i] \in Range(Digits)
DigitVal(c) == (CHOOSE i \in DOMAIN Digits : Digits[i] = c) - 1
RECURSIVE ParseInt(_)
ParseInt(s) ==
    IF s = <<>> THEN 0
    ELSE ParseInt(SubSeq(s, 1, Len(s) - 1)) * 10 + DigitVal(s[Len(s)])

\* sep.join(list)
RECURSIVE Join(_, _)
Join(sep, list) ==
    IF list = <<>> THEN <<>>
    ELSE IF Len(list) = 1 THEN list[1]
    ELSE list[1] \o sep \o Join(sep, Tail(list))

CommaSpace == <<",", " ">>

\* email.utils.formataddr((name, address)) for a display name without specials
formataddr(name, address) == name \o <<" ", "<">> \o address \o <<">">>

\* the three encryption modes
TLS == <<"t","l","s">>
SSL == <<"s","s","l">>
PLAIN == <<"n","o","n","e">>
KnownEncryption == {TLS, SSL, PLAIN}

NoError == <<>>
EmptyMap == [k \in {} |-> <<>>]

\* every function with domain K whose value at k is drawn from Dom[k]
RECURSIVE Assignments(_, _)
Assignments(K, Dom) ==
    IF K = {} THEN {EmptyMap}
    ELSE LET k == CHOOSE x \in K : TRUE
         IN  {(k :> v) @@ f : v \in Dom[k], f \in Assignments(K \ {k}, Dom)}

(***************************************************************************)
(* Environment and defaults.                                               *)
(***************************************************************************)
\* os.getenv(key, default)
getenv(key, default) == IF key \in DOMAIN environ THEN environ[key] ELSE default

DefaultEmail == <<"a","n","t","o","n","i","o",".","t","r","e","n","t","o",
                  "@","y","a","h","o","o",".","c","o","m">>
YahooHost == <<"s","m","t","p",".","m","a","i","l",".","y","a","h","o","o",".","c","o","m">>

YAHOO_DEFAULTS ==
    [MAIL_USER         |-> getenv("YAHOO_EMAIL", DefaultEmail),
     MAIL_PASS         |-> getenv("YAHOO_APP_PASSWORD", <<>>),
     MAIL_HOST         |-> YahooHost,
     MAIL_PORT         |-> <<"5","8","7">>,
     MAIL_ENCRYPTION   |-> TLS,
     MAIL_FROM_NAME    |-> <<>>,
     MAIL_FROM_ADDRESS |-> getenv("YAHOO_EMAIL", DefaultEmail)]

env_get(key, fallback) ==
    IF key \notin DOMAIN environ \/ environ[key] = <<>> THEN fallback ELSE environ[key]

\* int(env_get("MAIL_PORT", ...) or 587) raises ValueError unless the text is a number
PortText == env_get("MAIL_PORT", YAHOO_DEFAULTS.MAIL_PORT)
EnvPortOk == PortText = <<>> \/ IsDecimal(PortText)

\* faulty variant: an unknown mode falls back to plaintext
NormalizeToPlain(e) == IF e \notin KnownEncryption THEN PLAIN ELSE e

NormalizeEnvEncryption(e) == IF e \notin KnownEncryption THEN TLS ELSE e

load_transport_from_env ==
    [user         |-> env_get("MAIL_USER", YAHOO_DEFAULTS.MAIL_USER),
     password     |-> env_get("MAIL_PASS", YAHOO_DEFAULTS.MAIL_PASS),
     host         |-> env_get("MAIL_HOST", YAHOO_DEFAULTS.MAIL_HOST),
     port         |-> IF PortText = <<>> THEN 587 ELSE ParseInt(PortText),
     encryption   |-> NormalizeEnvEncryption(
                        Lower(LET e == env_get("MAIL_ENCRYPTION", YAHOO_DEFAULTS.MAIL_ENCRYPTION)
                              IN  IF e = <<>> THEN TLS ELSE e)),
     from_name    |-> env_get("MAIL_FROM_NAME", YAHOO_DEFAULTS.MAIL_FROM_NAME),
     from_address |-> env_get("MAIL_FROM_ADDRESS", YAHOO_DEFAULTS.MAIL_FROM_ADDRESS)]

TransportKeys == {"user", "password", "host", "port", "encryption", "from_name", "from_address"}

\* faulty variant: "args.k or env_cfg[k]", an empty or zero flag does not override
OverrideIfTruthy(a, env_cfg, k) ==
    IF k \in DOMAIN a /\ (IF k = "port" THEN a[k] # 0 ELSE a[k] # <<>>) THEN a[k] ELSE env_cfg[k]

\* "args.k if args.k is not None else env_cfg[k]"
Override(a, env_cfg, k) == IF k \in DOMAIN a THEN a[k] ELSE env_cfg[k]

\* the dictionary tr of resolve_config before the fallbacks; cafile and insecure are
\* passed through to _build_ssl_context untouched and are left out, as is provider
Overlay(a, env_cfg) == [k \in TransportKeys |-> Override(a, env_cfg, k)]

\* "Validation + sensible Yahoo fallbacks"
Fallbacks(tr) ==
    LET t1 == IF tr.from_address = <<>> THEN [tr EXCEPT !.from_address = tr.user] ELSE tr
        t2 == IF t1.host = <<>> THEN [t1 EXCEPT !.host = YAHOO_DEFAULTS.MAIL_HOST] ELSE t1
        t3 == IF t2.port = 0 THEN [t2 EXCEPT !.port = ParseInt(YAHOO_DEFAULTS.MAIL_PORT)] ELSE t2
    IN  IF t3.encryption \notin KnownEncryption THEN [t3 EXCEPT !.encryption = TLS] ELSE t3

ResolveTransport(a, env_cfg) == Fallbacks(Overlay(a, env_cfg))


(***************************************************************************)
(* build_message.                                                          *)
(***************************************************************************)
\* Python truthiness of an optional str or list argument: not None and not empty
Truthy(a, k) == k \in DOMAIN a /\ a[k] # <<>>
\* "x or []" / "x or ''"
OrEmpty(a, k) == IF Truthy(a, k) THEN a[k] ELSE <<>>

\* EmailMessage()
NewMessage == [headers |-> EmptyMap, parts |-> <<>>, attachments |-> <<>>]

\* the files the attachment paths name: a regular file, a directory, or nothing
PdfPath == <<"r", ".", "p", "d", "f">>
DirPath == <<"o", "u", "t">>
MissingPath == <<"n", "o", ".", "t", "x", "t">>
FileKind(path) ==
    IF path = PdfPath THEN "file" ELSE IF path = DirPath THEN "dir" ELSE "missing"

\* path.exists() and path.is_file()
IsRegularFile(path) == FileKind(path) = "file"

\* mimetypes.guess_type by the file name's extension
HasDot(path) == \E i \in DOMAIN path : path[i] = "."
Suffix(path) ==
    LET d == CHOOSE i \in DOMAIN path : path[i] = "." /\ \A j \in DOMAIN path : path[j] = "." => j <= i
    IN  SubSeq(path, d + 1, Len(path))
guess_mime_type(path) ==
    IF HasDot(path) /\ Suffix(path) = <<"p", "d", "f">> THEN <<"application", "pdf">>
    ELSE IF HasDot(path) /\ Suffix(path) = <<"t", "x", "t">> THEN <<"text", "plain">>
    ELSE <<"application", "octet-stream">>

\* From, To, Cc, Subject, Reply-To
SetHeaders(a) ==
    ("From" :> (IF a.from_name # <<>> THEN formataddr(a.from_name, a.from_address)
                ELSE a.from_address))
    @@ ("To" :> Join(CommaSpace, a.to))
    @@ (IF Truthy(a, "cc") THEN ("Cc" :> Join(CommaSpace, a.cc)) ELSE EmptyMap)
    @@ ("Subject" :> a.subject)
    @@ (IF Truthy(a, "reply_to") THEN ("Reply-To" :> a.reply_to) ELSE EmptyMap)

\* faulty variant: the HTML body replaces the plain-text body
SetBodyHtmlOnly(a) ==
    IF Truthy(a, "html")
    THEN <<[subtype |-> "html", content |-> a.html]>>
    ELSE <<[subtype |-> "plain", content |-> OrEmpty(a, "text")]>>

\* set_content(text or "") and, when html is truthy, add_alternative(html, subtype="html")
SetBody(a) ==
    IF Truthy(a, "html")
    THEN <<[subtype |-> "plain", content |-> OrEmpty(a, "text")],
           [subtype |-> "html", content |-> a.html]>>
    ELSE <<[subtype |-> "plain", content |-> OrEmpty(a, "text")]>>

\* the orders in which list({...}) can enumerate a set
Orderings(S) ==
    {s \in [1 .. Cardinality(S) -> S] : \A i, j \in 1 .. Cardinality(S) : s[i] = s[j] => i = j}

\* faulty variant: Bcc is left out of the delivery set
RecipientSetNoBcc(a) == Range(OrEmpty(a, "to")) \cup Range(OrEmpty(a, "cc"))

\* {*(to or []), *(cc or []), *(bcc or [])}
RecipientSet(a) ==
    Range(OrEmpty(a, "to")) \cup Range(OrEmpty(a, "cc")) \cup Range(OrEmpty(a, "bcc"))

\* where a function hands control back: to main, or to the end of a direct call
ReturnTo(mainPc) == IF entry = "main" THEN mainPc ELSE "done"

cfgVars == <<transport, msg_cfg>>
netVars == <<sm, conn, tls, log>>
inVars == <<entry, environ, args, run>>

BuildHeaders ==
    /\ pc = "bm_headers"
    /\ bm' = [bm EXCEPT !.m = [@ EXCEPT !.headers = SetHeaders(bm.a)]]
    /\ pc' = "bm_body"
    /\ UNCHANGED <<inVars, cfgVars, netVars, msg, err, report>>

BuildBody ==
    /\ pc = "bm_body"
    /\ bm' = [bm EXCEPT !.m = [@ EXCEPT !.parts = SetBody(bm.a)]]
    /\ pc' = "bm_attach"
    /\ UNCHANGED <<inVars, cfgVars, netVars, msg, err, report>>

\* faulty variant: a path that is not a regular file is skipped
AttachStepSkipBad(b) ==
    LET files == OrEmpty(b.a, "attachments")
        path == files[b.i]
        mime == guess_mime_type(path)
    IN  IF b.i > Len(files)
        THEN [pc |-> "bm_store", bm |-> b, err |-> NoError]
        ELSE IF ~IsRegularFile(path)
        THEN [pc |-> "bm_attach", bm |-> [b EXCEPT !.i = @ + 1], err |-> NoError]
        ELSE [pc |-> "bm_attach",
              bm |-> [b EXCEPT !.i = @ + 1,
                               !.m = [@ EXCEPT !.attachments =
                                        Append(@, [filename |-> path,
                                                   maintype |-> mime[1],
                                                   subtype |-> mime[2]])]],
              err |-> NoError]

\* one iteration of "for f in attachments or []"
AttachStep(b) ==
    LET files == OrEmpty(b.a, "attachments")
        path == files[b.i]
        mime == guess_mime_type(path)
    IN  IF b.i > Len(files)
        THEN [pc |-> "bm_store", bm |-> b, err |-> NoError]
        ELSE IF ~IsRegularFile(path)
        THEN [pc |-> "raised", bm |-> b, err |-> <<"FileNotFoundError", path>>]
        ELSE [pc |-> "bm_attach",
              bm |-> [b EXCEPT !.i = @ + 1,
                               !.m = [@ EXCEPT !.attachments =
                                        Append(@, [filename |-> path,
                                                   maintype |-> mime[1],
                                                   subtype |-> mime[2]])]],
              err |-> NoError]

BuildAttach ==
    /\ pc = "bm_attach"
    /\ LET r == AttachStep(bm)
       IN  /\ pc' = r.pc
           /\ bm' = r.bm
           /\ err' = r.err
    /\ UNCHANGED <<inVars, cfgVars, netVars, msg, report>>

\* "msg.__all_recipients__ = all_rcpts; return msg"
BuildStore ==
    /\ pc = "bm_store"
    /\ \E all_rcpts \in Orderings(RecipientSet(bm.a)) :
          msg' = bm.m @@ ("all_recipients" :> all_rcpts)
    /\ pc' = ReturnTo("main_dispatch")
    /\ UNCHANGED <<inVars, cfgVars, netVars, bm, err, report>>


(***************************************************************************)
(* send_smtp.                                                              *)
(***************************************************************************)
\* getattr(msg, "__all_recipients__", [])
Recipients(m) == IF "all_recipients" \in DOMAIN m THEN m.all_recipients ELSE <<>>

\* one session operation, its outcome, and whether the connection was TLS-protected then
Event(op, ok, secure, to) == [op |-> op, ok |-> ok, tls |-> secure, to |-> to]

\* (encryption or "tls").lower()
LocalEncryption(e) == Lower(IF e = <<>> THEN TLS ELSE e)

\* faulty variant: the recipient list is not checked
SendCheckSkipped ==
    /\ pc = "sm_check"
    /\ pc' = "sm_mode"
    /\ UNCHANGED <<inVars, cfgVars, netVars, bm, msg, err, report>>

\* "if not recipients: raise ValueError"
SendCheckRecipients ==
    /\ pc = "sm_check"
    /\ IF Recipients(msg) = <<>>
       THEN pc' = "raised" /\ err' = <<"ValueError", <<>>>>
       ELSE pc' = "sm_mode" /\ err' = NoError
    /\ UNCHANGED <<inVars, cfgVars, netVars, bm, msg, report>>

\* the branch a normalised encryption value takes
Branch(enc) == IF enc = SSL THEN "ssl_context" ELSE "plain_connect"

SendMode ==
    /\ pc = "sm_mode"
    /\ sm' = [sm EXCEPT !.encryption = LocalEncryption(sm.encryption)]
    /\ pc' = Branch(LocalEncryption(sm.encryption))
    /\ UNCHANGED <<inVars, cfgVars, bm, msg, conn, tls, log, err, report>>

\* _build_ssl_context ahead of SMTP_SSL; it raises on an unreadable CA file
SslContext ==
    /\ pc = "ssl_context"
    /\ \E ok \in BOOLEAN :
          /\ log' = Append(log, Event("context", ok, tls, <<>>))
          /\ IF ok THEN pc' = "ssl_connect" /\ err' = NoError
                   ELSE pc' = "raised" /\ err' = <<"SSLError", <<>>>>
    /\ UNCHANGED <<inVars, cfgVars, bm, msg, sm, conn, tls, report>>

\* smtplib.SMTP_SSL(host, port, context=context): the constructor connects through TLS;
\* when it fails the socket was never opened or the constructor closed it
SslConnect ==
    /\ pc = "ssl_connect"
    /\ \E outcome \in {"ok", "refused", "rejected"} :
          /\ log' = Append(log, Event("connect", outcome = "ok", TRUE, <<>>))
          /\ conn' = CASE outcome = "ok" -> "open"
                       [] outcome = "refused" -> "none"
                       [] outcome = "rejected" -> "closed"
          /\ tls' = (outcome = "ok")
          /\ IF outcome = "ok" THEN pc' = "login" /\ err' = NoError
                               ELSE pc' = "raised" /\ err' = <<"SMTPConnectError", <<>>>>
    /\ UNCHANGED <<inVars, cfgVars, bm, msg, sm, report>>

\* smtplib.SMTP(host, port)
PlainConnect ==
    /\ pc = "plain_connect"
    /\ \E outcome \in {"ok", "refused", "rejected"} :
          /\ log' = Append(log, Event("connect", outcome = "ok", FALSE, <<>>))
          /\ conn' = CASE outcome = "ok" -> "open"
                       [] outcome = "refused" -> "none"
                       [] outcome = "rejected" -> "closed"
          /\ IF outcome = "ok" THEN pc' = "ehlo" /\ err' = NoError
                               ELSE pc' = "raised" /\ err' = <<"SMTPConnectError", <<>>>>
    /\ UNCHANGED <<inVars, cfgVars, bm, msg, sm, tls, report>>

\* faulty variant: the upgrade is skipped
AfterEhloNoUpgrade(enc) == "login"

\* what follows the first server.ehlo()
AfterEhlo(enc) == IF enc = TLS THEN "starttls" ELSE "login"

Ehlo ==
    /\ pc = "ehlo"
    /\ \E ok \in BOOLEAN :
          /\ log' = Append(log, Event("ehlo", ok, tls, <<>>))
          /\ IF ok THEN pc' = AfterEhlo(sm.encryption) /\ err' = NoError
                   ELSE pc' = "with_exit" /\ err' = <<"SMTPHeloError", <<>>>>
    /\ UNCHANGED <<inVars, cfgVars, bm, msg, sm, conn, tls, report>>

\* the log after _build_ssl_context and server.starttls(context=context)
StartTlsLog(l, outcome) ==
    IF outcome = "nocontext"
    THEN Append(l, Event("context", FALSE, FALSE, <<>>))
    ELSE Append(Append(l, Event("context", TRUE, FALSE, <<>>)),
                Event("starttls", outcome = "ok", FALSE, <<>>))

StartTls ==
    /\ pc = "starttls"
    /\ \E outcome \in {"ok", "nocontext", "refused"} :
          /\ log' = StartTlsLog(log, outcome)
          /\ tls' = (outcome = "ok")
          /\ IF outcome = "ok" THEN pc' = "ehlo_tls" /\ err' = NoError
                               ELSE pc' = "with_exit" /\ err' = <<"SMTPException", <<>>>>
    /\ UNCHANGED <<inVars, cfgVars, bm, msg, sm, conn, report>>

\* the second server.ehlo(), after the upgrade
EhloTls ==
    /\ pc = "ehlo_tls"
    /\ \E ok \in BOOLEAN :
          /\ log' = Append(log, Event("ehlo", ok, tls, <<>>))
          /\ IF ok THEN pc' = "login" /\ err' = NoError
                   ELSE pc' = "with_exit" /\ err' = <<"SMTPHeloError", <<>>>>
    /\ UNCHANGED <<inVars, cfgVars, bm, msg, sm, conn, tls, report>>

\* "if user: server.login(user, password)"
Login ==
    /\ pc = "login"
    /\ IF sm.user # <<>>
       THEN \E ok \in BOOLEAN :
               /\ log' = Append(log, Event("login", ok, tls, <<>>))
               /\ IF ok THEN pc' = "send" /\ err' = NoError
                        ELSE pc' = "with_exit" /\ err' = <<"SMTPAuthenticationError", <<>>>>
       ELSE /\ pc' = "send"
            /\ UNCHANGED <<log, err>>
    /\ UNCHANGED <<inVars, cfgVars, bm, msg, sm, conn, tls, report>>

\* server.send_message(msg, to_addrs=recipients)
SendMessage ==
    /\ pc = "send"
    /\ \E ok \in BOOLEAN :
          /\ log' = Append(log, Event("send", ok, tls, Recipients(msg)))
          /\ err' = IF ok THEN NoError ELSE <<"SMTPRecipientsRefused", <<>>>>
    /\ pc' = "with_exit"
    /\ UNCHANGED <<inVars, cfgVars, bm, msg, sm, conn, tls, report>>

\* faulty variant: the connection is closed on the success path only
ExitConnOnSuccess(c, e) == IF e = NoError THEN "closed" ELSE c

\* the state of the connection when the with block is left
ExitConn(c, e) == "closed"

\* SMTP.__exit__: QUIT, then close() in a finally clause; the exception in flight, if
\* any, propagates, and a QUIT that is answered badly raises after a clean block
WithExit ==
    /\ pc = "with_exit"
    /\ conn' = ExitConn(conn, err)
    /\ \E quit \in BOOLEAN :
          /\ log' = Append(log, Event("quit", quit, tls, <<>>))
          /\ err' = IF err # NoError THEN err
                    ELSE IF quit THEN NoError ELSE <<"SMTPResponseException", <<>>>>
          /\ pc' = IF err # NoError \/ ~quit THEN "raised" ELSE ReturnTo("main_print")
    /\ UNCHANGED <<inVars, cfgVars, bm, msg, sm, tls, report>>


(***************************************************************************)
(* resolve_config and main.                                                *)
(***************************************************************************)
resolve_config ==
    /\ pc = "resolve_config"
    /\ IF ~EnvPortOk
       THEN /\ pc' = "raised"
            /\ err' = <<"ValueError", PortText>>
            /\ UNCHANGED cfgVars
       ELSE /\ transport' = ResolveTransport(args, load_transport_from_env)
            /\ msg_cfg' = [from_address |-> transport'.from_address,
                           from_name |-> transport'.from_name]
            /\ pc' = ReturnTo("main_prompt")
            /\ err' = NoError
    /\ UNCHANGED <<inVars, netVars, bm, msg, report>>

\* what getpass.getpass can return
TypedPasswords == {<<>>, <<"t", "y", "p", "e", "d">>}

\* "if transport['user'] and not transport['password']: transport['password'] = getpass(...)"
MainPrompt ==
    /\ pc = "main_prompt"
    /\ IF transport.user # <<>> /\ transport.password = <<>>
       THEN \E typed \in TypedPasswords : transport' = [transport EXCEPT !.password = typed]
       ELSE UNCHANGED transport
    /\ pc' = "main_build"
    /\ UNCHANGED <<inVars, msg_cfg, netVars, bm, msg, err, report>>

OptionalMessageArgs == {"html", "cc", "bcc", "reply_to", "attachments"}

\* the keyword arguments main passes to build_message
BuildCall(a, cfg) ==
    [k \in {"from_address", "from_name", "to", "subject", "text"}
            \cup (DOMAIN a \cap OptionalMessageArgs) |->
        IF k \in {"from_address", "from_name"} THEN cfg[k] ELSE a[k]]

MainBuild ==
    /\ pc = "main_build"
    /\ bm' = [a |-> BuildCall(args, msg_cfg), m |-> NewMessage, i |-> 1]
    /\ pc' = "bm_headers"
    /\ UNCHANGED <<inVars, cfgVars, netVars, msg, err, report>>

ReportedHeaders == {"From", "To", "Cc", "Subject", "Reply-To"}

\* "for k in (...): if msg.get(k): print(k, msg[k])"
ReportHeaders(m) ==
    [k \in {h \in ReportedHeaders : h \in DOMAIN m.headers /\ m.headers[h] # <<>>} |->
        m.headers[k]]

\* faulty variant: the report shows the environment's values, not the resolved ones
ReportTransportFromEnv(t) ==
    [host |-> load_transport_from_env.host, port |-> load_transport_from_env.port,
     encryption |-> load_transport_from_env.encryption, user |-> load_transport_from_env.user]

\* "Host: ...  Port: ...  Enc: ...  User: ..."
ReportTransport(t) ==
    [host |-> t.host, port |-> t.port, encryption |-> t.encryption, user |-> t.user]

DryRun ==
    /\ pc = "main_dispatch"
    /\ args.dry_run
    /\ report' = [headers |-> ReportHeaders(msg), transport |-> ReportTransport(transport)]
    /\ pc' = "done"
    /\ UNCHANGED <<inVars, cfgVars, netVars, bm, msg, err>>

\* the arguments main passes to send_smtp
SendCall(t) ==
    [user |-> t.user, password |-> t.password, host |-> t.host, port |-> t.port,
     encryption |-> t.encryption]

MainSend ==
    /\ pc = "main_dispatch"
    /\ ~args.dry_run
    /\ sm' = SendCall(transport)
    /\ pc' = "sm_check"
    /\ UNCHANGED <<inVars, cfgVars, bm, msg, conn, tls, log, err, report>>

\* the confirmation naming the recipients
MainPrint ==
    /\ pc = "main_print"
    /\ pc' = "done"
    /\ UNCHANGED <<inVars, cfgVars, netVars, bm, msg, err, report>>

\* the same command line is run again without --dry-run, in the same environment
Rerun ==
    /\ pc = "done"
    /\ entry = "main"
    /\ run = 1
    /\ args.dry_run
    /\ run' = 2
    /\ args' = [args EXCEPT !.dry_run = FALSE]
    /\ pc' = "resolve_config"
    /\ transport' = EmptyMap
    /\ msg_cfg' = EmptyMap
    /\ bm' = EmptyMap
    /\ msg' = EmptyMap
    /\ UNCHANGED <<entry, environ, netVars, err, report>>

(***************************************************************************)
(* Inputs.                                                                 *)
(***************************************************************************)
AddrA == <<"a", "@", "x">>
AddrB == <<"b", "@", "x">>
AddrC == <<"c", "@", "x">>
Sender == <<"s", "@", "x">>
Html == <<"<", "p", ">">>
Hi == <<"H", "i">>

EnvKeys == {"MAIL_USER", "MAIL_PASS", "MAIL_HOST", "MAIL_PORT", "MAIL_ENCRYPTION",
            "MAIL_FROM_NAME", "MAIL_FROM_ADDRESS", "YAHOO_EMAIL", "YAHOO_APP_PASSWORD"}

\* the values a setting is given: environment variables are text, flags are parsed by argparse
SettingDomain ==
    [MAIL_USER          |-> {<<>>, <<"e", "@", "x">>},
     MAIL_PASS          |-> {<<"e", "p", "w">>},
     MAIL_HOST          |-> {<<>>, <<"m", "x">>},
     MAIL_PORT          |-> {<<>>, <<"0">>, <<"2", "5">>, <<"x">>},
     MAIL_ENCRYPTION    |-> {<<>>, SSL, PLAIN, <<"S", "S", "L">>, <<"N", "o", "n", "e">>,
                             <<"s", "t", "a", "r", "t", "t", "l", "s">>},
     MAIL_FROM_NAME     |-> {<<"E", "n", "v">>},
     MAIL_FROM_ADDRESS  |-> {<<"f", "@", "x">>},
     YAHOO_EMAIL        |-> {<<>>, <<"y", "@", "x">>},
     YAHOO_APP_PASSWORD |-> {<<"a", "p", "p">>},
     user               |-> {<<>>, <<"c", "@", "x">>},
     password           |-> {<<>>, <<"c", "p", "w">>},
     host               |-> {<<>>, <<"c", "h">>},
     port               |-> {0, 465},
     encryption         |-> KnownEncryption,
     from_name          |-> {<<>>, <<"C", "l", "i">>},
     from_address       |-> {<<>>, <<"g", "@", "x">>}]

Restrict(f, K) == [k \in DOMAIN f \cap K |-> f[k]]

\* every way of giving at most n settings a value
Settings(n) ==
    UNION {Assignments(K, SettingDomain) :
             K \in {S \in SUBSET (EnvKeys \cup TransportKeys) : Cardinality(S) <= n}}

SeqsUpTo(S, n) == UNION {[1 .. k -> S] : k \in 0 .. n}

\* the message arguments of the command lines main is run with
MainMessages ==
    {[to |-> <<AddrA>>, subject |-> Hi, text |-> Hi],
     [to |-> <<AddrA, AddrB>>, cc |-> <<AddrB>>, bcc |-> <<AddrC>>, subject |-> <<>>,
      text |-> <<>>, html |-> Html, reply_to |-> AddrC],
     [to |-> <<AddrA>>, subject |-> Hi, text |-> Hi, attachments |-> <<PdfPath>>],
     [to |-> <<AddrA>>, subject |-> Hi, text |-> Hi, attachments |-> <<PdfPath, MissingPath>>]}

\* the optional arguments of a direct call of build_message
OptionalDomain ==
    [html        |-> {<<>>, Html},
     cc          |-> SeqsUpTo({AddrB, AddrC}, MaxCc),
     bcc         |-> SeqsUpTo({AddrA, AddrC}, MaxCc),
     attachments |-> SeqsUpTo({PdfPath, DirPath, MissingPath}, MaxAttach)]

BuildArguments ==
    {[from_address |-> Sender, from_name |-> <<>>, subject |-> Hi, to |-> t, text |-> x] @@ o :
        t \in SeqsUpTo({AddrA, AddrB}, MaxTo),
        x \in {<<>>, Hi},
        o \in UNION {Assignments(K, OptionalDomain) : K \in SUBSET DOMAIN OptionalDomain}}

\* the messages and arguments of a direct call of send_smtp
SendMessages ==
    {[NewMessage EXCEPT !.parts = <<[subtype |-> "plain", content |-> Hi]>>]}
    \cup {[NewMessage EXCEPT !.parts = <<[subtype |-> "plain", content |-> Hi]>>]
            @@ ("all_recipients" :> r) : r \in SeqsUpTo({AddrA, AddrB}, MaxRcpt)}

SendEncryptions ==
    KnownEncryption \cup {<<>>, <<"T", "L", "S">>, <<"S", "s", "l">>, <<"N", "O", "N", "E">>,
                          <<"s", "t", "a", "r", "t", "t", "l", "s">>}

SendArguments ==
    {[user |-> u, password |-> <<"p", "w">>, host |-> <<"m", "x">>, port |-> 587,
      encryption |-> e] : u \in {<<>>, <<"u", "@", "x">>}, e \in SendEncryptions}

Idle ==
    /\ conn = "none"
    /\ tls = FALSE
    /\ log = <<>>
    /\ err = NoError
    /\ report = EmptyMap
    /\ run = 1

InitMain ==
    /\ entry = "main"
    /\ \E f \in Settings(MaxMainSettings), m \in MainMessages, d \in BOOLEAN :
          /\ environ = Restrict(f, EnvKeys)
          /\ args = Restrict(f, TransportKeys) @@ m @@ [dry_run |-> d]
    /\ pc = "resolve_config"
    /\ transport = EmptyMap /\ msg_cfg = EmptyMap /\ bm = EmptyMap
    /\ msg = EmptyMap /\ sm = EmptyMap
    /\ Idle

InitResolve ==
    /\ entry = "resolve_config"
    /\ \E f \in Settings(MaxSettings) :
          /\ environ = Restrict(f, EnvKeys)
          /\ args = Restrict(f, TransportKeys)
    /\ pc = "resolve_config"
    /\ transport = EmptyMap /\ msg_cfg = EmptyMap /\ bm = EmptyMap
    /\ msg = EmptyMap /\ sm = EmptyMap
    /\ Idle

InitBuild ==
    /\ entry = "build_message"
    /\ environ = EmptyMap /\ args = EmptyMap
    /\ \E a \in BuildArguments : bm = [a |-> a, m |-> NewMessage, i |-> 1]
    /\ pc = "bm_headers"
    /\ transport = EmptyMap /\ msg_cfg = EmptyMap
    /\ msg = EmptyMap /\ sm = EmptyMap
    /\ Idle

InitSend ==
    /\ entry = "send_smtp"
    /\ environ = EmptyMap /\ args = EmptyMap
    /\ msg \in SendMessages
    /\ sm \in SendArguments
    /\ pc = "sm_check"
    /\ transport = EmptyMap /\ msg_cfg = EmptyMap /\ bm = EmptyMap
    /\ Idle

Init == InitMain \/ InitResolve \/ InitBuild \/ InitSend

Next ==
    \/ resolve_config
    \/ MainPrompt
    \/ MainBuild
    \/ BuildHeaders
    \/ BuildBody
    \/ BuildAttach
    \/ BuildStore
    \/ DryRun
    \/ MainSend
    \/ SendCheckRecipients
    \/ SendMode
    \/ SslContext
    \/ SslConnect
    \/ PlainConnect
    \/ Ehlo
    \/ StartTls
    \/ EhloTls
    \/ Login
    \/ SendMessage
    \/ WithExit
    \/ MainPrint
    \/ Rerun

Spec == Init /\ [][Next]_vars

(***************************************************************************)
(* Properties.                                                             *)
(***************************************************************************)
\* build_message has been called: its frame exists
BuildCalled == "a" \in DOMAIN bm
\* the caller holds a message object
HasMessage == "headers" \in DOMAIN msg
\* send_smtp has been called: its frame exists
SendCalled == "encryption" \in DOMAIN sm

Distinct(s) == \A i, j \in DOMAIN s : s[i] = s[j] => i = j
AddressesOf(a, k) == IF k \in DOMAIN a THEN Range(a[k]) ELSE {}
Transmissions == {i \in DOMAIN log : log[i].op = "send"}
Authenticated == {i \in DOMAIN log : log[i].op \in {"login", "send"}}

\* C1: the recipient list build_message stores holds exactly the distinct addresses of
\* To, Cc and Bcc, each once, and send_smtp transmits to exactly that list.
C1_RecipientsAreUnion ==
    /\ (BuildCalled /\ HasMessage) =>
          /\ "all_recipients" \in DOMAIN msg
          /\ Distinct(msg.all_recipients)
          /\ Range(msg.all_recipients) =
                AddressesOf(bm.a, "to") \cup AddressesOf(bm.a, "cc") \cup AddressesOf(bm.a, "bcc")
    /\ \A i \in Transmissions :
          /\ log[i].to = Recipients(msg)
          /\ BuildCalled =>
                Range(log[i].to) =
                   AddressesOf(bm.a, "to") \cup AddressesOf(bm.a, "cc") \cup AddressesOf(bm.a, "bcc")

\* a run of main has transmitted to three recipients named by four To/Cc/Bcc entries
C1_Witness ==
    /\ entry = "main"
    /\ BuildCalled
    /\ "cc" \in DOMAIN bm.a /\ "bcc" \in DOMAIN bm.a
    /\ Len(bm.a.to) + Len(bm.a.cc) + Len(bm.a.bcc) = 4
    /\ \E i \in Transmissions : log[i].ok /\ Cardinality(Range(log[i].to)) = 3

InsideWith == {"ehlo", "starttls", "ehlo_tls", "login", "send", "with_exit"}

\* C2: a connection send_smtp opened is open only inside the with block; once
\* send_smtp has returned or raised the connection is closed, in every mode.
C2_ConnectionClosedOnExit == conn = "open" => pc \in InsideWith

\* a failed login over an upgraded connection ended send_smtp with the connection closed
C2_Witness ==
    /\ pc = "raised"
    /\ conn = "closed"
    /\ err[1] = "SMTPAuthenticationError"
    /\ sm.encryption = TLS

SendPcs == {"sm_check", "sm_mode", "ssl_context", "ssl_connect", "plain_connect"} \cup InsideWith

\* C3: with --dry-run main never calls send_smtp and opens no connection, and the
\* headers, host, port, encryption and user it printed are those the same command
\* line without the flag builds and hands to send_smtp.
C3_DryRunFaithful ==
    /\ (entry = "main" /\ args.dry_run) =>
          /\ pc \notin SendPcs
          /\ ~SendCalled
          /\ conn = "none"
          /\ log = <<>>
    /\ (run = 2 /\ HasMessage) =>
          /\ \A k \in DOMAIN report.headers :
                k \in DOMAIN msg.headers /\ msg.headers[k] = report.headers[k]
          /\ \A k \in DOMAIN msg.headers \ DOMAIN report.headers : msg.headers[k] = <<>>
    /\ (run = 2 /\ SendCalled) =>
          /\ sm.host = report.transport.host
          /\ sm.port = report.transport.port
          /\ sm.encryption = report.transport.encryption
          /\ sm.user = report.transport.user

\* the run after a dry-run has transmitted, with a host flag overriding the environment
C3_Witness ==
    /\ run = 2
    /\ "host" \in DOMAIN args /\ args.host # <<>>
    /\ report.transport.host = args.host
    /\ \E i \in Transmissions : log[i].ok

\* C4: send_smtp called with an empty recipient list raises the no-recipients
\* ValueError before any context is built, connection opened, login or transmission.
C4_NoRecipientsFailsFirst ==
    (SendCalled /\ Recipients(msg) = <<>>) =>
        /\ pc \in {"sm_check", "raised"}
        /\ log = <<>>
        /\ conn = "none"
        /\ ~tls
        /\ pc = "raised" => err = <<"ValueError", <<>>>>

\* send_smtp has raised on a message that carries an empty recipient list
C4_Witness ==
    /\ entry = "send_smtp"
    /\ pc = "raised"
    /\ "all_recipients" \in DOMAIN msg
    /\ msg.all_recipients = <<>>

\* resolve_config, entered directly, has returned
Resolved == entry = "resolve_config" /\ pc = "done"

\* the value resolve_config chooses for k: the flag when given, else the loaded environment value
Chosen(k) == IF k \in DOMAIN args THEN args[k] ELSE load_transport_from_env[k]

\* C5 as stated: every transport setting of the result is the flag's value when the
\* flag is given, whatever it is, and the environment value otherwise.
C5_OverrideAlwaysWins == Resolved => \A k \in TransportKeys : transport[k] = Chosen(k)

\* C5 as amended: user, password, encryption and from-name are the flag's value when
\* given and the loaded environment value otherwise; so are host, port and
\* from-address unless that value is empty or zero, which resolve_config replaces by
\* the default host, 587 and the resolved user.
C5_OverrideWinsUnlessEmpty ==
    Resolved =>
        \A k \in TransportKeys :
            transport[k] =
                CASE k = "host" /\ Chosen(k) = <<>> -> YahooHost
                  [] k = "port" /\ Chosen(k) = 0 -> 587
                  [] k = "from_address" /\ Chosen(k) = <<>> -> transport.user
                  [] OTHER -> Chosen(k)

\* a host flag and MAIL_HOST are both set, to different values, and the flag won
C5_Witness ==
    /\ Resolved
    /\ "host" \in DOMAIN args /\ "MAIL_HOST" \in DOMAIN environ
    /\ args.host # <<>> /\ environ.MAIL_HOST # <<>>
    /\ transport.host = args.host
    /\ transport.host # load_transport_from_env.host

\* the encryption input of resolve_config: the flag, else MAIL_ENCRYPTION
EncryptionGiven == "encryption" \in DOMAIN args \/ "MAIL_ENCRYPTION" \in DOMAIN environ
EncryptionInput ==
    IF "encryption" \in DOMAIN args THEN args.encryption ELSE environ.MAIL_ENCRYPTION

\* C6 as stated: the resolved mode is tls, ssl or none, and any input that is not
\* one of these three values (or is absent) resolves to tls; only the port can raise.
C6_OutsideSetIsTls ==
    /\ Resolved =>
          /\ transport.encryption \in KnownEncryption
          /\ (~EncryptionGiven \/ EncryptionInput \notin KnownEncryption) =>
                transport.encryption = TLS
    /\ (entry = "resolve_config" /\ pc = "raised") => ~EnvPortOk

\* C6 as amended: the resolved mode is tls, ssl or none; an environment value is
\* compared after lowercasing, so an input resolves to tls when it is absent or when
\* its lowercase form is not one of the three values, and to its lowercase form
\* otherwise; only the port can raise.
C6_OutsideSetIsTlsIgnoringCase ==
    /\ Resolved =>
          /\ transport.encryption \in KnownEncryption
          /\ (~EncryptionGiven \/ Lower(EncryptionInput) \notin KnownEncryption) =>
                transport.encryption = TLS
          /\ (EncryptionGiven /\ Lower(EncryptionInput) \in KnownEncryption) =>
                transport.encryption = Lower(EncryptionInput)
    /\ (entry = "resolve_config" /\ pc = "raised") => ~EnvPortOk

\* MAIL_ENCRYPTION holds an unknown word, no flag is given, and the result is tls
C6_Witness ==
    /\ Resolved
    /\ "encryption" \notin DOMAIN args
    /\ "MAIL_ENCRYPTION" \in DOMAIN environ
    /\ Lower(environ.MAIL_ENCRYPTION) \notin KnownEncryption
    /\ environ.MAIL_ENCRYPTION # <<>>
    /\ transport.encryption = TLS

BuildPcs == {"bm_headers", "bm_body", "bm_attach", "bm_store"}
AttachmentList == OrEmpty(bm.a, "attachments")
BadAttachments == {i \in DOMAIN AttachmentList : FileKind(AttachmentList[i]) # "file"}
FirstBad == CHOOSE i \in BadAttachments : \A j \in BadAttachments : i <= j

\* C7: when an attachment path is missing or not a regular file, build_message ends
\* by raising FileNotFoundError naming the first such path, wherever it stands in the
\* list, and the caller never receives a message object.
C7_BadAttachmentFailsBuild ==
    (BuildCalled /\ BadAttachments # {}) =>
        /\ ~HasMessage
        /\ pc \in (BuildPcs \ {"bm_store"}) \cup {"raised"}
        /\ pc = "raised" => err = <<"FileNotFoundError", AttachmentList[FirstBad]>>

\* the build failed at the second path after the first file had been attached
C7_Witness ==
    /\ BuildCalled
    /\ pc = "raised"
    /\ err[1] = "FileNotFoundError"
    /\ bm.i = 2
    /\ Len(bm.m.attachments) = 1

Subtypes(m) == [i \in DOMAIN m.parts |-> m.parts[i].subtype]

\* C8 as stated: a supplied HTML body (any value, the empty one included) gives a
\* plain-text part and an HTML part; an omitted one gives the plain-text part only.
C8_HtmlSuppliedGivesBothParts ==
    (BuildCalled /\ HasMessage) =>
        IF "html" \in DOMAIN bm.a
        THEN Subtypes(msg) = <<"plain", "html">>
        ELSE Subtypes(msg) = <<"plain">>

\* C8 as amended: a supplied non-empty HTML body gives a plain-text part holding the
\* text (empty or not) and an HTML part holding the HTML; an omitted or empty HTML
\* body gives the plain-text part only.
C8_NonEmptyHtmlGivesBothParts ==
    (BuildCalled /\ HasMessage) =>
        IF "html" \in DOMAIN bm.a /\ bm.a.html # <<>>
        THEN /\ Subtypes(msg) = <<"plain", "html">>
             /\ msg.parts[1].content = bm.a.text
             /\ msg.parts[2].content = bm.a.html
        ELSE /\ Subtypes(msg) = <<"plain">>
             /\ msg.parts[1].content = bm.a.text

\* a message was built from an HTML body and an empty text
C8_Witness ==
    /\ BuildCalled /\ HasMessage
    /\ "html" \in DOMAIN bm.a /\ bm.a.html # <<>>
    /\ bm.a.text = <<>>
    /\ Len(msg.parts) = 2

Ops(l) == [i \in DOMAIN l |-> l[i].op]
IsPrefix(s, t) == Len(s) <= Len(t) /\ \A i \in DOMAIN s : s[i] = t[i]
IsQuit(e) == e.op = "quit"
NotQuit(e) == e.op # "quit"
StartTlsOrder(user) ==
    <<"connect", "ehlo", "context", "starttls", "ehlo">>
        \o (IF user # <<>> THEN <<"login">> ELSE <<>>) \o <<"send">>

\* C9: in STARTTLS mode the session operations are, in order, a plaintext connect,
\* the greeting, the context and the upgrade, the greeting again, the login (only
\* with a non-empty user) and the transmission; each step follows a successful one,
\* so login and transmission come only after a successful upgrade.
C9_StartTlsOrder ==
    (SendCalled /\ LocalEncryption(sm.encryption) = TLS) =>
        /\ IsPrefix(Ops(SelectSeq(log, NotQuit)), StartTlsOrder(sm.user))
        /\ \A i \in DOMAIN log : IsQuit(log[i]) => i = Len(log)
        /\ \A i, j \in DOMAIN log : (i < j /\ NotQuit(log[j])) => log[i].ok
        /\ \A i \in DOMAIN log : log[i].op = "connect" => ~log[i].tls
        /\ \A i \in Authenticated :
              /\ log[i].tls
              /\ \E j \in 1 .. (i - 1) : log[j].op = "starttls" /\ log[j].ok

\* a STARTTLS session with a user ran all its steps and returned
C9_Witness ==
    /\ SendCalled
    /\ sm.encryption = TLS
    /\ sm.user # <<>>
    /\ Ops(log) = StartTlsOrder(sm.user) \o <<"quit">>
    /\ err = NoError

\* C10: unless plaintext mode was asked for (none, in any case), login and
\* transmission happen only over a TLS-protected connection.
C10_NoPlaintextFallback ==
    (SendCalled /\ LocalEncryption(sm.encryption) # PLAIN) =>
        \A i \in Authenticated : log[i].tls

====
